---- MODULE Spec2Model ----
(***************************************************************************)
(* Weighted moving-average filter over a caller-owned ring buffer          *)
(* (src/src/drivers/filters/ma/wma_f.c): wma_f_init and wma_f_add.         *)
(*                                                                         *)
(* A float is modelled by the exact value it stands for: a reduced         *)
(* fraction <<n, d>> with d > 0, or <<0,0>> (NaN), <<1,0>> (+Infinity),    *)
(* <<-1,0>> (-Infinity).  The samples and weights of the model are small   *)
(* integers, so every product and sum of the code is exact; the final      *)
(* quotient is kept as the exact fraction, of which the rounded float is   *)
(* a function.  Signed zeros are not distinguished.                        *)
(***************************************************************************)
EXTENDS Integers, Sequences, FiniteSets, TLC

\* ---------------------------------------------------------------- bounds
MaxSize == 3

\* Width in bits of the unsigned sample counter k.  The code's counter is a
\* 16-bit unsigned integer (the uint16_t arithmetic of lines 96 and 130); the
\* model keeps the wrap-around of k++ and scales the width down, so that the
\* wrap is reached after 2^KBits adds instead of 65536.
KBits == 4

\* ------------------------------------------------------ program constants
KMod == 2 ^ KBits

ERROR_NONE == "ERROR_NONE"
ERROR_UNEXPECTEDVALUE == "ERROR_UNEXPECTEDVALUE"

\* ---------------------------------------------------------- float values
NaN == <<0, 0>>
PosInf == <<1, 0>>
NegInf == <<-1, 0>>
Zero == <<0, 1>>

Flt(n) == <<n, 1>>

IsNaN(a) == a = NaN
NonFinite(a) == a[2] = 0
Sign(n) == IF n > 0 THEN 1 ELSE IF n < 0 THEN -1 ELSE 0
Abs(n) == IF n < 0 THEN -n ELSE n

RECURSIVE Gcd(_, _)
Gcd(a, b) == IF b = 0 THEN a ELSE Gcd(b, a % b)

\* the fraction n/d (d # 0) in lowest terms with a positive denominator
Norm(n, d) ==
  LET g == Gcd(Abs(n), Abs(d))
      s == Sign(d)
  IN  <<(s * n) \div g, (s * d) \div g>>

\* a * b
FMul(a, b) ==
  IF IsNaN(a) \/ IsNaN(b) THEN NaN
  ELSE IF NonFinite(a) \/ NonFinite(b)
       THEN IF a[1] = 0 \/ b[1] = 0 THEN NaN
            ELSE <<Sign(a[1]) * Sign(b[1]), 0>>
       ELSE Norm(a[1] * b[1], a[2] * b[2])

\* a + b
FAdd(a, b) ==
  IF IsNaN(a) \/ IsNaN(b) THEN NaN
  ELSE IF NonFinite(a) /\ NonFinite(b)
       THEN IF a = b THEN a ELSE NaN
       ELSE IF NonFinite(a) THEN a
       ELSE IF NonFinite(b) THEN b
       ELSE Norm(a[1] * b[2] + b[1] * a[2], a[2] * b[2])

\* a / b
FDiv(a, b) ==
  IF IsNaN(a) \/ IsNaN(b) THEN NaN
  ELSE IF NonFinite(a)
       THEN IF NonFinite(b) THEN NaN
            ELSE <<a[1] * (IF b[1] < 0 THEN -1 ELSE 1), 0>>
       ELSE IF NonFinite(b) THEN Zero
       ELSE IF b[1] = 0
            THEN IF a[1] = 0 THEN NaN ELSE <<Sign(a[1]), 0>>
            ELSE Norm(a[1] * b[2], a[2] * b[1])

\* ------------------------------------------------------- inputs of the model
\* sample values handed to wma_f_add
Samples == {Flt(0), Flt(1), Flt(2), PosInf, NegInf, NaN}
\* what the caller's buffer array may hold before the filter is used
StaleSamples == {Flt(0), Flt(1)}
\* what the k / avg / sum_weight fields may hold before wma_f_init
StaleK == {0, 5}
StaleAvg == {Zero, Flt(1)}
StaleSum == {Zero, Flt(1)}

\* weight arrays of a window of n: rising 1, 2, .., n; all 1; and, for
\* n > 1, rising from 0 (the oldest sample has no influence)
WeightVecs(n) ==
  {[i \in 1..n |-> Flt(i)], [i \in 1..n |-> Flt(1)]}
    \cup (IF n > 1 THEN {[i \in 1..n |-> Flt(i - 1)]} ELSE {})

\* ------------------------------------------------------------ the filter
\* a wma_f_t; the C arrays weight[0..size-1] and buffer[0..size-1] are the
\* sequences weight[1..size] and buffer[1..size]
Instances ==
  UNION {[k : StaleK, size : {n}, avg : StaleAvg, sum_weight : StaleSum,
          weight : WeightVecs(n), buffer : [1..n -> StaleSamples]] :
         n \in 0..MaxSize}

\* the loop of wma_f_init: sum_weight += weight[i] for i up to size-1
RECURSIVE SumWeight_skip(_, _, _)
SumWeight_skip(w, i, acc) ==
  IF i + 1 < w.size
  THEN SumWeight_skip(w, i + 1, FAdd(acc, w.weight[i + 1]))
  ELSE acc

RECURSIVE SumWeight(_, _, _)
SumWeight(w, i, acc) ==
  IF i < w.size THEN SumWeight(w, i + 1, FAdd(acc, w.weight[i + 1])) ELSE acc

\* wma->avg = 0; wma->k = 0; wma->sum_weight = 0; and the loop
ResetFields_keepavg(w) ==
  [w EXCEPT !.k = 0, !.sum_weight = SumWeight(w, 0, Zero)]

ResetFields_clear(w) ==
  [w EXCEPT !.avg = Zero, !.k = 0, !.sum_weight = SumWeight(w, 0, Zero),
            !.buffer = [i \in 1..w.size |-> Zero]]

ResetFields(w) ==
  [w EXCEPT !.avg = Zero, !.k = 0, !.sum_weight = SumWeight(w, 0, Zero)]

\* error_t wma_f_init(wma_f_t *wma): the value returned and the instance left
wma_f_init_late(w) ==
  IF 0 = w.size
  THEN [ret |-> ERROR_UNEXPECTEDVALUE,
        wma |-> [w EXCEPT !.avg = Zero, !.k = 0, !.sum_weight = Zero]]
  ELSE [ret |-> ERROR_NONE, wma |-> ResetFields(w)]

wma_f_init(w) ==
  IF 0 = w.size THEN [ret |-> ERROR_UNEXPECTEDVALUE, wma |-> w]
  ELSE [ret |-> ERROR_NONE, wma |-> ResetFields(w)]

\* the ring slot that weight index i is multiplied with
RingIndex_newest(i, current_pos, size) == (current_pos + size - 1 - i) % size

RingIndex(i, current_pos, size) == (i + current_pos) % size

\* the loop of wma_f_add: total += buffer[(i + current_pos) % size] * weight[i]
RECURSIVE Total_short(_, _, _, _)
Total_short(w, current_pos, i, acc) ==
  IF i + 1 < w.size
  THEN Total_short(w, current_pos, i + 1,
                   FAdd(acc,
                        FMul(w.buffer[RingIndex(i, current_pos, w.size) + 1],
                             w.weight[i + 1])))
  ELSE acc

RECURSIVE Total(_, _, _, _)
Total(w, current_pos, i, acc) ==
  IF i < w.size
  THEN Total(w, current_pos, i + 1,
             FAdd(acc, FMul(w.buffer[RingIndex(i, current_pos, w.size) + 1],
                            w.weight[i + 1])))
  ELSE acc

\* wma->k++ on the unsigned counter
IncK(k) == (k + 1) % KMod

\* the slot wma_f_add writes: buffer + k % size
WritePos(w) == w.k % w.size

\* whether wma_f_add returns before averaging: k < size
WarmUp_early(k, size) == k + 1 < size

WarmUp(k, size) == k < size

\* the update of avg at the end of wma_f_add
StoreAvg_sum(w, total) ==
  [w EXCEPT !.sum_weight = total, !.avg = FDiv(total, w.sum_weight)]

StoreAvg(w, total) == [w EXCEPT !.avg = FDiv(total, w.sum_weight)]

\* void wma_f_add(wma_f_t *wma, float x): the instance left
wma_f_add(w, x) ==
  LET stored == [w EXCEPT !.buffer[WritePos(w) + 1] = x, !.k = IncK(w.k)]
  IN  IF WarmUp(stored.k, stored.size) THEN stored
      ELSE LET current_pos == stored.k % stored.size
           IN  StoreAvg(stored, Total(stored, current_pos, 0, Zero))

\* ------------------------------------------------------------------ state
VARIABLES
  wma,     \* the filter instance
  other,   \* a second instance with the same size and weights (SpecPair)
  ret,     \* what the last wma_f_init returned ("none" before the first call)
  last,    \* the last operation: "none", "init" or "add"
  hist,    \* history: the samples added since the last successful
           \* wma_f_init, the last `size` of them, oldest first
  poison   \* history: the number of adds since a non-finite sample was last
           \* added by an averaging add, the add itself included; size when
           \* there is none among the last size adds

vars == <<wma, other, ret, last, hist, poison>>

\* s with x appended, cut to its last n elements
Push(s, x, n) ==
  LET t == Append(s, x)
  IN  IF Len(t) > n THEN SubSeq(t, Len(t) - n + 1, Len(t)) ELSE t

Min(a, b) == IF a < b THEN a ELSE b

\* the instance of a caller that has no second filter
NoInstance ==
  [k |-> 0, size |-> 0, avg |-> Zero, sum_weight |-> Zero,
   weight |-> <<>>, buffer |-> <<>>]

InitCommon ==
  /\ wma \in Instances
  /\ ret = "none"
  /\ last = "none"
  /\ hist = <<>>
  /\ poison = wma.size

Init ==
  /\ InitCommon
  /\ other = NoInstance

\* the history variables after wma_f_init returned r on wma
InitHistory(r) ==
  /\ ret' = r.ret
  /\ last' = "init"
  /\ hist' = IF r.ret = ERROR_NONE THEN <<>> ELSE hist
  /\ poison' = IF r.ret = ERROR_NONE THEN wma.size ELSE poison

\* the history variables after wma_f_add(&wma, x)
AddHistory(x) ==
  /\ hist' = Push(hist, x, wma.size)
  /\ poison' = IF NonFinite(x) /\ wma'.k >= wma.size THEN 0
               ELSE Min(poison + 1, wma.size)
  /\ last' = "add"
  /\ UNCHANGED ret

\* the caller calls wma_f_init(&wma)
DoInit ==
  LET r == wma_f_init(wma)
  IN  /\ wma' = r.wma
      /\ InitHistory(r)
      /\ UNCHANGED other

\* the caller calls wma_f_add(&wma, x) on an instance whose last wma_f_init
\* succeeded
DoAdd ==
  /\ ret = ERROR_NONE
  /\ \E x \in Samples :
       /\ wma' = wma_f_add(wma, x)
       /\ AddHistory(x)
  /\ UNCHANGED other

Next == DoInit \/ DoAdd

Spec == Init /\ [][Next]_vars

\* ------------------------------------------------- two instances, in step
InitPair ==
  /\ InitCommon
  /\ other \in {o \in Instances : o.size = wma.size /\ o.weight = wma.weight}

\* the caller initialises both instances
PairInit ==
  LET r == wma_f_init(wma)
  IN  /\ wma' = r.wma
      /\ other' = wma_f_init(other).wma
      /\ InitHistory(r)

\* the caller adds the same sample to both instances
PairAdd ==
  /\ ret = ERROR_NONE
  /\ \E x \in Samples :
       /\ wma' = wma_f_add(wma, x)
       /\ other' = wma_f_add(other, x)
       /\ AddHistory(x)

NextPair == PairInit \/ PairAdd

SpecPair == InitPair /\ [][NextPair]_vars

\* ------------------------------------------------------------ properties
\* weights[0] + ... + weights[n-1] of a weight array, last element first
RECURSIVE SumOfWeights(_)
SumOfWeights(wt) ==
  IF wt = <<>> THEN Zero ELSE FAdd(SumOfWeights(Tail(wt)), Head(wt))

\* sum over i in 0..n-1 of weights[i] * s_i, for the samples s oldest first
RECURSIVE WindowSum(_, _, _)
WindowSum(s, wt, n) ==
  IF n = 0 THEN Zero
  ELSE FAdd(FMul(wt[n], s[n]), WindowSum(s, wt, n - 1))

Rising(n) == [i \in 1..n |-> Flt(i)]

\* C1: after every wma_f_add that leaves k >= size, at least size samples
\* were added since initialisation and avg is the sum of weight[i] times the
\* i-th oldest of the last size samples, divided by sum_weight: weight 0
\* goes with the oldest sample, weight size-1 with the one just added.
C1_Alignment ==
  (last = "add" /\ wma.k >= wma.size) =>
    /\ Len(hist) = wma.size
    /\ wma.avg = FDiv(WindowSum(hist, wma.weight, wma.size), wma.sum_weight)

\* the ring has wrapped, three different samples, rising weights
C1_Witness ==
  /\ last = "add"
  /\ wma.size = 3
  /\ wma.k > 3
  /\ wma.weight = Rising(3)
  /\ hist = <<Flt(2), Flt(0), Flt(1)>>
  /\ wma.avg = <<5, 6>>

\* C2: after a successful wma_f_init, avg is 0 as long as fewer than size
\* samples were added, and every wma_f_add that leaves k < size leaves avg
\* at its value before the call.
C2_WarmUp ==
  /\ []((ret = ERROR_NONE /\ Len(hist) < wma.size) => wma.avg = Zero)
  /\ [][(last' = "add" /\ wma'.k < wma.size) => wma'.avg = wma.avg]_vars

\* two non-zero samples in a window of three, avg still 0
C2_Witness ==
  /\ last = "add"
  /\ wma.size = 3
  /\ wma.k = 2
  /\ hist = <<Flt(2), Flt(1)>>
  /\ wma.avg = Zero

\* C3: wma_f_init on an instance with size = 0 returns
\* ERROR_UNEXPECTEDVALUE and leaves every field of the instance as it was.
C3_ZeroSizeRejected ==
  [][(last' = "init" /\ wma.size = 0) =>
       (ret' = ERROR_UNEXPECTEDVALUE /\ wma' = wma)]_vars

\* the rejected instance still holds its non-zero k, avg and sum_weight
C3_Witness ==
  /\ last = "init"
  /\ ret = ERROR_UNEXPECTEDVALUE
  /\ wma.size = 0
  /\ wma.k = 5
  /\ wma.avg = Flt(1)
  /\ wma.sum_weight = Flt(1)

C5_RingHoldsWindow ==
  (ret = ERROR_NONE /\ wma.size > 0 /\ Len(hist) = wma.size) =>
    \A j \in 0..(wma.size - 1) :
      wma.buffer[((wma.k + j) % wma.size) + 1] = hist[j + 1]

\* C6: two instances with the same size and weights, initialised and fed
\* the same samples, have equal avg and equal k after every call, whatever
\* their buffers and fields held before initialisation.
C6_Determinism ==
  (ret = ERROR_NONE) => (wma.avg = other.avg /\ wma.k = other.k)

\* the buffers still differ in a slot not yet written, the averages agree
C6_Witness ==
  /\ last = "add"
  /\ wma.size = 3
  /\ wma.k = 2
  /\ wma.buffer # other.buffer
  /\ wma.avg = other.avg

\* C7 as stated: after every wma_f_add, a non-finite sample among the
\* last size samples added makes avg non-finite.
C7_PoisonAlways ==
  (last = "add" /\ \E i \in 1..Len(hist) : NonFinite(hist[i])) =>
    NonFinite(wma.avg)

\* C7, amended: a non-finite sample added by a wma_f_add that leaves
\* k >= size makes avg non-finite after that call and after each of the
\* next size-1 calls of wma_f_add.
C7_PoisonSteady == (poison < wma.size) => NonFinite(wma.avg)

\* the non-finite sample is the oldest of the window, two finite ones later
C7_Witness ==
  /\ last = "add"
  /\ wma.size = 3
  /\ poison = 2
  /\ NonFinite(hist[1])
  /\ ~NonFinite(hist[2])
  /\ ~NonFinite(hist[3])
  /\ NonFinite(wma.avg)

\* C8: every wma_f_add increases k, and once an add has left k >= size
\* every later add leaves k >= size as well.
C8_OneWay ==
  [][(last = "add" /\ wma.k >= wma.size /\ last' = "add") =>
       (wma'.k > wma.k /\ wma'.k >= wma.size)]_vars

\* C9: after a successful wma_f_init, sum_weight is the sum of
\* weight[0..size-1] in every state, and wma_f_add changes none of
\* sum_weight, weight and size.
C9_WeightSum ==
  /\ [](ret = ERROR_NONE => wma.sum_weight = SumOfWeights(wma.weight))
  /\ [][last' = "add" =>
          /\ wma'.sum_weight = wma.sum_weight
          /\ wma'.weight = wma.weight
          /\ wma'.size = wma.size]_vars

\* an averaging add on a window of two with weights 1, 2
C9_Witness ==
  /\ last = "add"
  /\ wma.size = 2
  /\ wma.k >= 2
  /\ wma.weight = Rising(2)
  /\ wma.sum_weight = Flt(3)
  /\ wma.avg # Zero

\* C10: wma_f_init changes no buffer slot, no weight and not size.
C10_InitFrame ==
  [][last' = "init" =>
       /\ wma'.buffer = wma.buffer
       /\ wma'.weight = wma.weight
       /\ wma'.size = wma.size]_vars

\* a NaN added before the re-initialisation is still in the buffer
C10_Witness ==
  /\ last = "init"
  /\ ret = ERROR_NONE
  /\ wma.k = 0
  /\ \E i \in 1..wma.size : wma.buffer[i] = NaN
====
